---- MODULE Spec2Model ----
(***************************************************************************)
(* Model of chat2api.py: the POST /v1/chat/completions pipeline            *)
(* (send_conversation -> async_retry -> process -> to_send_conversation),  *)
(* the token pool kept in chatgpt.globals (token_list, error_token_list,   *)
(* data/token.txt) and the /tokens admin handlers.                         *)
(*                                                                         *)
(* The handlers are asyncio coroutines on one event loop: a coroutine runs *)
(* without interruption until it awaits.  Every awaited call of the        *)
(* pipeline is therefore one action, and a handler without any await is    *)
(* uninterruptible (see ClearSuspends, Runnable).                          *)
(*                                                                         *)
(* ChatService, async_retry, get_req_token and chatgpt.globals are         *)
(* imported by chat2api.py and are not part of it; what they do is taken   *)
(* from the specification (sections 4.1 - 4.3) and marked as such.         *)
(***************************************************************************)
EXTENDS Integers, Sequences, FiniteSets, TLC

VARIABLES
    token_list,        \* globals.token_list: the Pool sequence
    error_token_list,  \* globals.error_token_list: the quarantined values
    token_file,        \* data/token.txt, one token per line
    clear_pc,          \* position of a running POST /tokens/clear handler
    pc,                \* position of the chat-completion call
    attempt,           \* attempts made by async_retry
    sessions,          \* every ChatService constructed for the call
    raised,            \* the exception in flight (or NoError)
    result,            \* what the caller of the endpoint receives
    res_kind,          \* what send_conversation returned: "stream" / "json"
    valid,             \* whether the payload passes set_dynamic_data
    body,              \* the body of the call: "json" / "not-json"
    delivery,          \* how the delivery of the response body ended
    up_text,           \* form field of the pending POST /tokens/upload
    up_pc,             \* position of the handler of that upload
    up_line,           \* lines of up_text the handler has gone through
    view_pc,           \* position of a running GET /tokens handler
    view_toks,         \* set(globals.token_list) as that handler read it
    view_count,        \* the tokens_count that handler reported last
    rp_path,           \* path of the catch-all request
    rp_cookie,         \* its seed_token cookie (NoCookie: absent)
    rp_now,            \* time.time() when it is handled
    rp_resp            \* the response to it

vars == << token_list, error_token_list, token_file, clear_pc, pc,
           attempt, sessions, raised, result, res_kind, valid, body, delivery,
           up_text, up_pc, up_line, view_pc, view_toks, view_count,
           rp_path, rp_cookie, rp_now, rp_resp >>

poolVars == << token_list, error_token_list, token_file >>
callVars == << pc, attempt, sessions, raised, result, res_kind, valid, body,
              delivery >>
upVars   == << up_text, up_pc, up_line >>
viewVars == << view_pc, view_toks, view_count >>
proxyVars == << rp_path, rp_cookie, rp_now, rp_resp >>

----------------------------------------------------------------------------
(* Bounds of the model *)

MaxPool == 2        \* longest token_list the admin uploads build
MaxAttempts == 2    \* the configured maximum of async_retry
MaxTextLen == 4     \* longest uploaded text, in characters
MaxPathLen == 3     \* longest path of a catch-all request, in characters
MaxCookieLen == 2   \* longest seed_token cookie, in characters

----------------------------------------------------------------------------
(* Text: a str is a sequence of one-character strings *)

NL == "\n"
Whitespace == {" ", "\t", "\r", NL}
Alphabet == {NL, " ", "#", "a"}

Range(s) == {s[i] : i \in 1..Len(s)}

RECURSIVE SeqsUpTo(_, _)
SeqsUpTo(S, n) ==
    IF n = 0 THEN {<< >>}
    ELSE LET shorter == SeqsUpTo(S, n - 1)
         IN shorter \cup {Append(s, c) : s \in {t \in shorter : Len(t) = n - 1}, c \in S}

\* str.split("\n")
RECURSIVE split(_)
split(text) ==
    IF \A i \in 1..Len(text) : text[i] # NL
    THEN << text >>
    ELSE LET k == CHOOSE i \in 1..Len(text) :
                     text[i] = NL /\ \A j \in 1..(i - 1) : text[j] # NL
         IN << SubSeq(text, 1, k - 1) >> \o split(SubSeq(text, k + 1, Len(text)))

\* str.strip()
strip(line) ==
    LET keep == {i \in 1..Len(line) : line[i] \notin Whitespace}
    IN IF keep = {} THEN << >>
       ELSE LET lo == CHOOSE i \in keep : \A j \in keep : i <= j
                hi == CHOOSE i \in keep : \A j \in keep : j <= i
            IN SubSeq(line, lo, hi)

\* str.startswith("#")
startswith_hash(line) == Len(line) >= 1 /\ line[1] = "#"

\* the condition of the loop body of upload_post
accepted(line) == strip(line) # << >> /\ ~startswith_hash(line)

\* the tokens the loop of upload_post appends, in order
RECURSIVE accepted_tokens(_)
accepted_tokens(lines) ==
    IF lines = << >> THEN << >>
    ELSE (IF accepted(Head(lines)) THEN << strip(Head(lines)) >> ELSE << >>)
         \o accepted_tokens(Tail(lines))

TokA == << "a" >>
TokB == << "a", "a" >>
Tokens == {TokA, TokB}

----------------------------------------------------------------------------
(* The Pool: chatgpt.globals and the handlers that read it *)

\* len(set(globals.token_list) - set(globals.error_token_list))
tokens_count(list, errs) == Cardinality(Range(list) \ Range(errs))

\* list(globals.error_token_list): the list as it is, duplicates kept
error_tokens_keeps_duplicates(errs) ==
    [t \in Range(errs) |-> Cardinality({i \in 1..Len(errs) : errs[i] = t})]

\* list(set(globals.error_token_list)): a list in arbitrary order, modelled as
\* the multiset of its elements (value -> number of occurrences)
error_tokens(errs) == [t \in Range(errs) |-> 1]

\* quarantine(token): the value joins error_token_list
quarantine(errs, t) == Append(errs, t)

\* the active positions of the sequence: those whose value is not quarantined
Active(list, errs) == {i \in 1..Len(list) : list[i] \notin Range(errs)}

\* select() that forgets the quarantine set
select_ignores_quarantine(list, errs) == Range(list)

\* select(): the tokens it may return.  The policy that picks among the
\* active ones is left open: every policy returns one of these.  The empty
\* set stands for PoolExhausted.
select(list, errs) == {list[i] : i \in Active(list, errs)}

\* an upload that opens data/token.txt with "w": every write truncates it
upload_post_truncates(text) ==
    LET toks == accepted_tokens(split(text))
    IN /\ token_list' = token_list \o toks
       /\ token_file' = IF toks = << >> THEN token_file
                        ELSE << toks[Len(toks)] >>
       /\ UNCHANGED error_token_list

\* the body of upload_post (POST /tokens/upload): every accepted line is
\* appended to token_list and written to data/token.txt
upload_post(text) ==
    LET toks == accepted_tokens(split(text))
    IN /\ token_list' = token_list \o toks
       /\ token_file' = token_file \o toks
       /\ UNCHANGED error_token_list

\* a clear handler that awaits between its statements
ClearSuspendsBetweenStatements == TRUE

\* Whether the POST /tokens/clear handler suspends (awaits) between its
\* statements: it holds no await, so it keeps the event loop to its end.
ClearSuspends == FALSE

\* a GET /tokens handler that awaits between reading the two lists
ViewSuspendsBetweenReads == TRUE

\* Whether the GET /tokens handler suspends (awaits) while it computes
\* tokens_count: the expression holds no await.
ViewSuspends == FALSE

\* Another coroutine may run only when no handler holds the event loop.
Runnable ==
    /\ clear_pc = "idle" \/ ClearSuspends
    /\ view_pc = "idle" \/ ViewSuspends

----------------------------------------------------------------------------
(* Errors and Sessions *)

NoError == [type |-> "none", status |-> 0, detail |-> "none"]
HTTPException(status, detail) ==
    [type |-> "HTTPException", status |-> status, detail |-> detail]
\* the failures of the Session, as the HTTPException each one is raised as
ValidationError == HTTPException(400, "ValidationError")
AuthError == HTTPException(401, "AuthError")
RateLimited == HTTPException(429, "RateLimited")
UpstreamError == HTTPException(502, "UpstreamError")
PoolExhausted == HTTPException(503, "PoolExhausted")
\* anything that is not an HTTPException
Fault == [type |-> "Exception", status |-> 0, detail |-> "fault"]

\* ChatService(req_token): a fresh Session bound to one credential
ChatService(tok) == [tok |-> tok, ops |-> << >>, closes |-> 0, err |-> "none"]

\* one operation of the Session is invoked
invoke(s, op) == [s EXCEPT !.ops = Append(@, op)]

\* chat_service.close_client()
close_client(s) == [invoke(s, "close_client") EXCEPT !.closes = @ + 1]

\* the operations that drive a Session, in the order process calls them
protocol == << "set_dynamic_data", "get_chat_requirements",
               "prepare_send_conversation", "send_conversation" >>

\* the Session the current attempt works on
Cur == Len(sessions)

\* the Sessions that are created and not yet closed
Live == {i \in 1..Len(sessions) : sessions[i].closes = 0}

\* the outcomes of the Session's operations (NoError: it succeeded)
set_dynamic_data_outcomes == IF valid THEN {NoError, Fault} ELSE {ValidationError}
get_chat_requirements_outcomes ==
    {NoError, AuthError, UpstreamError, RateLimited, Fault}
prepare_send_conversation_outcomes == {NoError, Fault}
send_conversation_outcomes ==
    {NoError, AuthError, UpstreamError, RateLimited, Fault}

\* handlers that close the Session only for a non-HTTP exception
to_send_conversation_cleanup_no_close(s, e) ==
    IF e.type = "HTTPException" THEN s ELSE close_client(s)

\* handlers that turn every exception into the generic 500
to_send_conversation_raise_always_500(e) == HTTPException(500, "Server error")

\* handlers that close the Session and are followed by a second close
to_send_conversation_cleanup_twice(s, e) == close_client(close_client(s))

\* handlers that raise the exception they caught as it is
to_send_conversation_raise_reraises(e) == e

\* the handlers of to_send_conversation: what each one does to the Session ...
to_send_conversation_cleanup(s, e) ==
    IF e.type = "HTTPException"
    THEN close_client(s)    \* except HTTPException
    ELSE close_client(s)    \* except Exception

\* ... and what each one raises
to_send_conversation_raise(e) ==
    IF e.type = "HTTPException"
    THEN HTTPException(e.status, e.detail)
    ELSE HTTPException(500, "Server error")

\* async_retry: the errors it recovers by another attempt
Retryable(e) ==
    e.type = "HTTPException" /\ e.detail \in {"AuthError", "UpstreamError", "RateLimited"}

\* async_retry: the errors that quarantine the bound credential
Quarantines(e) == e.type = "HTTPException" /\ e.detail = "AuthError"

\* the handlers around the construction of the response in send_conversation:
\* a 500 and every non-HTTP exception become the generic 500
send_conversation_raise(e) ==
    IF e.type = "HTTPException" /\ e.status # 500
    THEN HTTPException(e.status, e.detail)
    ELSE HTTPException(500, "Server error")

\* a Session operation was invoked and ended with outcome o
step(s, op, o) ==
    [invoke(s, op) EXCEPT !.err = IF o = NoError THEN @
                                  ELSE IF o.type = "Exception" THEN "Fault"
                                  ELSE o.detail]

----------------------------------------------------------------------------
(* POST /v1/chat/completions *)

\* a handler that lets the exception of request.json() pass as a server error
json_error_as_server_error == HTTPException(500, "Server error")

\* raise HTTPException(status_code=400, detail={"error": "Invalid JSON body"})
json_error == HTTPException(400, "Invalid JSON body")

\* request_data = await request.json()
Receive ==
    /\ Runnable /\ pc = "idle"
    /\ \E b \in {"json", "not-json"}, v \in BOOLEAN :
          /\ body' = b
          /\ IF b = "json"
             THEN /\ valid' = v
                  /\ pc' = "select"
                  /\ UNCHANGED result
             ELSE /\ v             \* the payload is never looked at
                  /\ result' = json_error
                  /\ pc' = "done"
                  /\ UNCHANGED valid
    /\ UNCHANGED << poolVars, clear_pc, attempt, sessions, raised, res_kind,
                    delivery, upVars, viewVars, proxyVars >>

\* async_retry starts an attempt: process -> to_send_conversation selects a
\* credential and constructs the Session
Construct ==
    /\ Runnable /\ pc = "select"
    /\ attempt' = attempt + 1
    /\ LET toks == select(token_list, error_token_list)
       IN IF toks = {}
          THEN /\ result' = PoolExhausted
               /\ pc' = "done"
               /\ UNCHANGED sessions
          ELSE /\ \E t \in toks : sessions' = Append(sessions, ChatService(t))
               /\ pc' = "sdd"
               /\ UNCHANGED result
    /\ UNCHANGED << poolVars, clear_pc, raised, res_kind, valid, body, delivery, upVars, viewVars, proxyVars >>

\* await chat_service.set_dynamic_data(request_data)
SetDynamicData ==
    /\ Runnable /\ pc = "sdd"
    /\ \E o \in set_dynamic_data_outcomes :
          /\ sessions' = [sessions EXCEPT ![Cur] = step(@, "set_dynamic_data", o)]
          /\ raised' = o
          /\ pc' = IF o = NoError THEN "gcr" ELSE "tsc_except"
    /\ UNCHANGED << poolVars, clear_pc, attempt, result, res_kind, valid, body,
                    delivery, upVars, viewVars, proxyVars >>

\* await chat_service.get_chat_requirements(); return chat_service
GetChatRequirements ==
    /\ Runnable /\ pc = "gcr"
    /\ \E o \in get_chat_requirements_outcomes :
          /\ sessions' = [sessions EXCEPT ![Cur] = step(@, "get_chat_requirements", o)]
          /\ raised' = o
          /\ pc' = IF o = NoError THEN "psc" ELSE "tsc_except"
    /\ UNCHANGED << poolVars, clear_pc, attempt, result, res_kind, valid, body,
                    delivery, upVars, viewVars, proxyVars >>

\* the except clauses of to_send_conversation: close the Session, raise
ToSendExcept ==
    /\ Runnable /\ pc = "tsc_except"
    /\ sessions' = [sessions EXCEPT ![Cur] = to_send_conversation_cleanup(@, raised)]
    /\ raised' = to_send_conversation_raise(raised)
    /\ pc' = "retry_except"
    /\ UNCHANGED << poolVars, clear_pc, attempt, result, res_kind, valid, body,
                    delivery, upVars, viewVars, proxyVars >>

\* process: await chat_service.prepare_send_conversation(); no handler is
\* around it, an exception leaves process as it is
PrepareSendConversation ==
    /\ Runnable /\ pc = "psc"
    /\ \E o \in prepare_send_conversation_outcomes :
          /\ sessions' = [sessions EXCEPT ![Cur] = step(@, "prepare_send_conversation", o)]
          /\ raised' = o
          /\ pc' = IF o = NoError THEN "sc" ELSE "retry_except"
    /\ UNCHANGED << poolVars, clear_pc, attempt, result, res_kind, valid, body,
                    delivery, upVars, viewVars, proxyVars >>

\* process: res = await chat_service.send_conversation(); return chat_service, res
SendConversation ==
    /\ Runnable /\ pc = "sc"
    /\ \E o \in send_conversation_outcomes, k \in {"stream", "json"} :
          /\ sessions' = [sessions EXCEPT ![Cur] = step(@, "send_conversation", o)]
          /\ raised' = o
          /\ IF o = NoError
             THEN res_kind' = k /\ pc' = "respond"
             ELSE k = "json" /\ pc' = "retry_except" /\ UNCHANGED res_kind
    /\ UNCHANGED << poolVars, clear_pc, attempt, result, valid, body, delivery, upVars, viewVars, proxyVars >>

\* async_retry, on an exception of process: an AuthError quarantines the bound
\* credential; a retryable error below the maximum starts another attempt,
\* anything else (and the last attempt's error) goes to the caller
AsyncRetryExcept ==
    /\ Runnable /\ pc = "retry_except"
    /\ error_token_list' = IF Quarantines(raised)
                           THEN quarantine(error_token_list, sessions[Cur].tok)
                           ELSE error_token_list
    /\ IF Retryable(raised) /\ attempt < MaxAttempts
       THEN pc' = "select" /\ UNCHANGED result
       ELSE pc' = "done" /\ result' = raised
    /\ raised' = NoError
    /\ UNCHANGED << token_list, token_file, clear_pc, attempt, sessions,
                    res_kind, valid, body, delivery, upVars, viewVars, proxyVars >>

\* a background argument that calls close_client where it should pass it
BackgroundTask_called_at_once(s) == close_client(s)

\* background = BackgroundTask(chat_service.close_client): the close is handed
\* to the response, the Session is not touched
BackgroundTask(s) == s

\* the try block of send_conversation: the response is built with
\* close_client as its background task; a failure closes the Session here
BuildResponse ==
    /\ Runnable /\ pc = "respond"
    /\ \E o \in {NoError, Fault, HTTPException(500, "fault"), HTTPException(422, "fault")} :
          /\ raised' = o
          /\ IF o = NoError
             THEN /\ result' = [type |-> "response", status |-> 200, detail |-> res_kind]
                  /\ pc' = "deliver"
                  /\ sessions' = [sessions EXCEPT ![Cur] = BackgroundTask(@)]
             ELSE /\ sessions' = [sessions EXCEPT ![Cur] = close_client(@)]
                  /\ result' = send_conversation_raise(o)
                  /\ pc' = "done"
    /\ UNCHANGED << poolVars, clear_pc, attempt, res_kind, valid, body,
                    delivery, upVars, viewVars, proxyVars >>

\* how the delivery of a body can end: a JSON body is sent whole; a stream is
\* read to its end, abandoned by the client, or its iterator raises
delivery_outcomes ==
    IF res_kind = "stream" THEN {"complete", "disconnect", "failed"} ELSE {"complete"}

\* the response's background task runs once the body has been sent or the
\* client has gone; an exception of the body iterator leaves the response
\* call before it gets there
runs_background(d) == d # "failed"

\* the framework sends the response
Deliver ==
    /\ Runnable /\ pc = "deliver"
    /\ \E d \in delivery_outcomes :
          /\ delivery' = d
          /\ pc' = IF runs_background(d) THEN "background" ELSE "done"
    /\ UNCHANGED << poolVars, clear_pc, attempt, sessions, raised, result,
                    res_kind, valid, body, upVars, viewVars, proxyVars >>

\* BackgroundTask(chat_service.close_client)
Background ==
    /\ Runnable /\ pc = "background"
    /\ sessions' = [sessions EXCEPT ![Cur] = close_client(@)]
    /\ pc' = "done"
    /\ UNCHANGED << poolVars, clear_pc, attempt, raised, result, res_kind,
                    valid, body, delivery, upVars, viewVars, proxyVars >>

----------------------------------------------------------------------------
(* The admin handlers and the other users of the Pool *)

\* the texts the admin uploads while a call is in progress
AdminTexts == { << "a" >>, << "a", "a" >> }

\* POST /tokens/upload
Upload ==
    /\ Runnable
    /\ \E text \in AdminTexts :
          /\ Len(token_list) + Len(accepted_tokens(split(text))) <= MaxPool
          /\ upload_post(text)
    /\ UNCHANGED << clear_pc, callVars, upVars, viewVars, proxyVars >>

\* POST /tokens/clear, one statement at a time
ClearTokens ==
    /\ Runnable /\ clear_pc = "idle"
    /\ token_list' = << >>
    /\ clear_pc' = "tokens_cleared"
    /\ UNCHANGED << error_token_list, token_file, callVars, upVars, viewVars, proxyVars >>

ClearErrors ==
    /\ clear_pc = "tokens_cleared"
    /\ error_token_list' = << >>
    /\ clear_pc' = "errors_cleared"
    /\ UNCHANGED << token_list, token_file, callVars, upVars, viewVars, proxyVars >>

ClearFile ==
    /\ clear_pc = "errors_cleared"
    /\ token_file' = << >>
    /\ clear_pc' = "idle"
    /\ UNCHANGED << token_list, error_token_list, callVars, upVars, viewVars, proxyVars >>

\* quarantine(t) by another task (a concurrent call's retry, or refresh) of a
\* credential it found active
OtherQuarantine ==
    /\ Runnable
    /\ \E i \in Active(token_list, error_token_list) :
          error_token_list' = quarantine(error_token_list, token_list[i])
    /\ UNCHANGED << token_list, token_file, clear_pc, callVars, upVars, viewVars, proxyVars >>

----------------------------------------------------------------------------
(* The catch-all route: reverse_proxy *)

PathAlphabet == {"c", "/", "x"}
CookieAlphabet == {"4", "2", "&"}

\* time.time() at the requests the model handles, in seconds
Times == {7, 42}

\* the seed_token cookie of a request: absent, or present with a value
NoCookie == [present |-> FALSE, value |-> << >>]
Cookie(v) == [present |-> TRUE, value |-> v]

\* no response yet
NoResponse == [status |-> 0, location |-> << >>, proxied |-> FALSE]

\* path.startswith("c/")
startswith_c(path) == Len(path) >= 2 /\ path[1] = "c" /\ path[2] = "/"

Digits == << "0", "1", "2", "3", "4", "5", "6", "7", "8", "9" >>

\* str(int(t)): the decimal digits of t
RECURSIVE str_int(_)
str_int(n) ==
    IF n < 10 THEN << Digits[n + 1] >>
    ELSE str_int(n \div 10) \o << Digits[(n % 10) + 1] >>

\* str(request.base_url): the root of the application
base_url == << "/" >>

\* seed_token = request.cookies.get("seed_token");
\* if not seed_token: seed_token = str(int(time.time()))
seed_token(cookie, now) ==
    IF ~cookie.present \/ cookie.value = << >>
    THEN str_int(now)
    ELSE cookie.value

\* redirect_url = str(request.base_url) + "?seed=" + seed_token
redirect_url(cookie, now) ==
    base_url \o << "?", "s", "e", "e", "d", "=" >> \o seed_token(cookie, now)

\* RedirectResponse(url=redirect_url, status_code=302)
RedirectResponse(url, status_code) ==
    [status |-> status_code, location |-> url, proxied |-> FALSE]

\* the statuses the upstream answers a forwarded request with
UpstreamStatuses == {200, 302, 404}

\* reverse_proxy(request, path)
ReverseProxy ==
    /\ rp_resp = NoResponse
    /\ IF startswith_c(rp_path)
       THEN rp_resp' = RedirectResponse(redirect_url(rp_cookie, rp_now), 302)
       ELSE \E s \in UpstreamStatuses :
                rp_resp' = [status |-> s, location |-> << >>, proxied |-> TRUE]
    /\ UNCHANGED << poolVars, clear_pc, callVars, upVars, viewVars, rp_path,
                    rp_cookie, rp_now >>

InitProxy ==
    /\ token_list = << >>
    /\ error_token_list = << >>
    /\ token_file = << >>
    /\ clear_pc = "idle"
    /\ pc = "idle"
    /\ attempt = 0
    /\ sessions = << >>
    /\ raised = NoError
    /\ result = NoError
    /\ res_kind = "none"
    /\ valid = TRUE
    /\ body = "none"
    /\ delivery = "none"
    /\ up_text = << >>
    /\ up_pc = "done"
    /\ up_line = 0
    /\ view_pc = "idle"
    /\ view_toks = {}
    /\ view_count = 0
    /\ rp_path \in SeqsUpTo(PathAlphabet, MaxPathLen)
    /\ rp_cookie \in {NoCookie} \cup {Cookie(v) : v \in SeqsUpTo(CookieAlphabet, MaxCookieLen)}
    /\ rp_now \in Times
    /\ rp_resp = NoResponse

NextProxy == ReverseProxy

SpecProxy == InitProxy /\ [][NextProxy]_vars

----------------------------------------------------------------------------
(* The specification *)

Init ==
    /\ token_list = << >>
    /\ error_token_list = << >>
    /\ token_file = << >>
    /\ clear_pc = "idle"
    /\ pc = "idle"
    /\ attempt = 0
    /\ sessions = << >>
    /\ raised = NoError
    /\ result = NoError
    /\ res_kind = "none"
    /\ valid = TRUE
    /\ body = "none"
    /\ delivery = "none"
    /\ up_text = << >>
    /\ up_pc = "done"
    /\ up_line = 0
    /\ view_pc = "idle"
    /\ view_toks = {}
    /\ view_count = 0
    /\ rp_path = << >>
    /\ rp_cookie = NoCookie
    /\ rp_now = 0
    /\ rp_resp = NoResponse

Next ==
    \/ Receive
    \/ Construct
    \/ SetDynamicData
    \/ GetChatRequirements
    \/ ToSendExcept
    \/ PrepareSendConversation
    \/ SendConversation
    \/ AsyncRetryExcept
    \/ BuildResponse
    \/ Deliver
    \/ Background
    \/ Upload
    \/ ClearTokens
    \/ ClearErrors
    \/ ClearFile
    \/ OtherQuarantine

Spec == Init /\ [][Next]_vars

----------------------------------------------------------------------------
(* POST /tokens/upload on every text up to MaxTextLen characters *)

UploadPools == { << >>, << TokA >> }

InitUpload ==
    /\ token_list \in UploadPools
    /\ token_file = token_list
    /\ error_token_list \in {<< >>, token_list}
    /\ clear_pc = "idle"
    /\ pc = "idle"
    /\ attempt = 0
    /\ sessions = << >>
    /\ raised = NoError
    /\ result = NoError
    /\ res_kind = "none"
    /\ valid = TRUE
    /\ body = "none"
    /\ delivery = "none"
    /\ up_text \in SeqsUpTo(Alphabet, MaxTextLen)
    /\ up_pc = "pending"
    /\ up_line = 0
    /\ view_pc = "idle"
    /\ view_toks = {}
    /\ view_count = 0
    /\ rp_path = << >>
    /\ rp_cookie = NoCookie
    /\ rp_now = 0
    /\ rp_resp = NoResponse

\* the pending upload is handled
UploadPending ==
    /\ up_pc = "pending"
    /\ upload_post(up_text)
    /\ up_pc' = "done"
    /\ UNCHANGED << clear_pc, callVars, up_text, up_line, viewVars, proxyVars >>

NextUpload == UploadPending

SpecUpload == InitUpload /\ [][NextUpload]_vars

----------------------------------------------------------------------------
(* POST /tokens/upload, one statement of its loop at a time *)

\* for line in lines: the next line is tested; an accepted one is appended to
\* globals.token_list
UploadLine ==
    /\ up_pc = "pending"
    /\ up_line < Len(split(up_text))
    /\ up_line' = up_line + 1
    /\ LET line == split(up_text)[up_line + 1]
       IN IF accepted(line)
          THEN /\ token_list' = Append(token_list, strip(line))
               /\ up_pc' = "appended"
          ELSE UNCHANGED << token_list, up_pc >>
    /\ UNCHANGED << error_token_list, token_file, clear_pc, callVars, up_text,
                    viewVars, proxyVars >>

\* with open("data/token.txt", "a") as f: f.write(line.strip() + "\n")
UploadWrite ==
    /\ up_pc = "appended"
    /\ token_file' = Append(token_file, strip(split(up_text)[up_line]))
    /\ up_pc' = "pending"
    /\ UNCHANGED << token_list, error_token_list, clear_pc, callVars, up_text,
                    up_line, viewVars, proxyVars >>

\* open() or write() raises OSError: the exception leaves the handler
UploadWriteFails ==
    /\ up_pc = "appended"
    /\ up_pc' = "failed"
    /\ UNCHANGED << poolVars, clear_pc, callVars, up_text, up_line, viewVars,
                    proxyVars >>

\* the loop is over: return {"status": "success", ...}
UploadReturn ==
    /\ up_pc = "pending"
    /\ up_line = Len(split(up_text))
    /\ up_pc' = "done"
    /\ UNCHANGED << poolVars, clear_pc, callVars, up_text, up_line, viewVars,
                    proxyVars >>

NextUploadSteps ==
    \/ UploadLine
    \/ UploadWrite
    \/ UploadWriteFails
    \/ UploadReturn

SpecUploadSteps == InitUpload /\ [][NextUploadSteps]_vars

----------------------------------------------------------------------------
(* GET /tokens among the handlers that change the Pool *)

\* tokens_count = len(set(globals.token_list) - set(globals.error_token_list)),
\* first operand: set(globals.token_list)
ViewReadTokens ==
    /\ Runnable /\ view_pc = "idle"
    /\ view_toks' = Range(token_list)
    /\ view_pc' = "read"
    /\ UNCHANGED << poolVars, clear_pc, callVars, upVars, view_count, proxyVars >>

\* second operand, the difference and its len: the count the page reports
ViewCount ==
    /\ view_pc = "read"
    /\ view_count' = Cardinality(view_toks \ Range(error_token_list))
    /\ view_pc' = "idle"
    /\ UNCHANGED << poolVars, clear_pc, callVars, upVars, view_toks, proxyVars >>

NextPool ==
    \/ Upload
    \/ ClearTokens
    \/ ClearErrors
    \/ ClearFile
    \/ OtherQuarantine
    \/ ViewReadTokens
    \/ ViewCount

SpecPool == Init /\ [][NextPool]_vars

----------------------------------------------------------------------------
(* Claims *)

\* C1: every Session constructed for a call is closed exactly once on every
\* exit path: no Session is closed twice, and when the call is over no Session
\* is left unclosed.
C1_ClosedExactlyOnce ==
    /\ \A i \in 1..Len(sessions) : sessions[i].closes <= 1
    /\ pc = "done" => \A i \in 1..Len(sessions) : sessions[i].closes = 1

\* C2: when every attempt of the call ended in AuthError, the call made at most
\* MaxAttempts attempts, ends with no Session open and gives AuthError to the
\* caller.
C2_AllAuthErrorsClosed ==
    (/\ pc = "done"
     /\ attempt >= 1
     /\ Len(sessions) = attempt
     /\ \A i \in 1..Len(sessions) : sessions[i].err = "AuthError")
    => (/\ attempt <= MaxAttempts
        /\ Live = {}
        /\ result = AuthError)

\* C3: at every point of the retry loop at most one Session is live (a failed
\* attempt's Session is closed before the next one is constructed), and when
\* the loop ends with success the Session handed to the caller is the only
\* live one.
C3_AtMostOneLive ==
    /\ Cardinality(Live) <= 1
    /\ pc = "respond" => Live = {Cur}

\* C4: a ValidationError of set_dynamic_data is never retried: its Session is
\* the only one of the call, no upstream request was made on it, it is closed
\* once the handler has run, and the error reaches the caller with its status
\* and detail.
C4_ValidationNotRetried ==
    \A i \in 1..Len(sessions) :
        sessions[i].err = "ValidationError" =>
            /\ Len(sessions) = 1
            /\ attempt = 1
            /\ pc \in {"tsc_except", "retry_except", "done"}
            /\ "get_chat_requirements" \notin Range(sessions[i].ops)
            /\ "send_conversation" \notin Range(sessions[i].ops)
            /\ pc # "tsc_except" => sessions[i].closes = 1
            /\ pc = "retry_except" => raised = ValidationError
            /\ pc = "done" => result = ValidationError

\* a call that ended with its ValidationError and its one Session closed
C4_Witness ==
    /\ pc = "done"
    /\ result = ValidationError
    /\ Len(sessions) = 1
    /\ sessions[1].closes = 1

C6_SelectSkipsQuarantined ==
    [][ (pc = "select" /\ pc' # "select") =>
            IF pc' = "sdd"
            THEN /\ sessions'[Len(sessions')].tok \in Range(token_list)
                 /\ sessions'[Len(sessions')].tok \notin Range(error_token_list)
            ELSE /\ result' = PoolExhausted
                 /\ Active(token_list, error_token_list) = {}
      ]_vars

\* a Session bound while another token of the Pool is quarantined
C6_Witness ==
    /\ pc = "sdd"
    /\ error_token_list # << >>
    /\ Range(error_token_list) \subseteq Range(token_list)
    /\ sessions[Cur].tok \notin Range(error_token_list)

\* C7: quarantining a value that is already quarantined changes neither the
\* active count nor the list of distinct quarantined tokens.
C7_QuarantineIdempotent ==
    [][ \A t \in Tokens :
            (/\ t \in Range(error_token_list)
             /\ error_token_list' = quarantine(error_token_list, t)
             /\ token_list' = token_list)
            => /\ tokens_count(token_list', error_token_list')
                    = tokens_count(token_list, error_token_list)
               /\ error_tokens(error_token_list') = error_tokens(error_token_list)
      ]_vars

\* a value was quarantined twice
C7_Witness ==
    \E i, j \in 1..Len(error_token_list) :
        i # j /\ error_token_list[i] = error_token_list[j]

\* C8: an upload appends to the Pool and to the store exactly the lines that
\* are not blank and do not start with '#', trimmed and in order, and no
\* appended token begins with '#'.
C8_UploadKeepsNoComment ==
    [][ (up_pc = "pending" /\ up_pc' = "done") =>
            LET lines == split(up_text)
                kept == SelectSeq(lines, LAMBDA l : strip(l) # << >> /\ ~startswith_hash(l))
                toks == [i \in 1..Len(kept) |-> strip(kept[i])]
            IN /\ token_list' = token_list \o toks
               /\ token_file' = token_file \o toks
               /\ \A i \in 1..Len(token_list') :
                      i > Len(token_list) => ~startswith_hash(token_list'[i])
      ]_vars

C10_StreamReleasesSession ==
    (pc = "done" /\ res_kind = "stream" /\ delivery # "none")
        => sessions[Cur].closes >= 1

\* C11: a call whose body is not JSON is answered with 400 "Invalid JSON body"
\* and that is all the call does: no attempt is made, no credential is
\* selected and no Session is constructed.
C11_InvalidJsonBody ==
    body = "not-json" =>
        /\ pc = "done"
        /\ result = [type |-> "HTTPException", status |-> 400,
                     detail |-> "Invalid JSON body"]
        /\ attempt = 0
        /\ sessions = << >>
        /\ raised = NoError

\* a call with a body that is not JSON was answered while the Pool held an
\* active token
C11_Witness ==
    /\ body = "not-json"
    /\ pc = "done"
    /\ select(token_list, error_token_list) # {}

\* C12: a token is persisted before or together with its in-memory append: in
\* every state, between the two steps of one add included, every token of the
\* in-memory sequence is in the durable store.
C12_PersistedBeforeMemory ==
    \A t \in Range(token_list) :
        Cardinality({i \in 1..Len(token_list) : token_list[i] = t})
            <= Cardinality({i \in 1..Len(token_file) : token_file[i] = t})

\* C13: when the call is over, no exception that is not an HTTPException has
\* reached the caller: a fault of a Session operation or of the construction
\* of the response is reported as the generic 500 "Server error", and an
\* HTTPException raised while the response is constructed reaches the caller
\* with its status and detail.
C13_FaultsBecomeServerError ==
    (pc = "done" /\ body = "json") =>
        /\ result.type # "Exception"
        /\ (sessions # << >> /\ sessions[Cur].err = "Fault") =>
               result = [type |-> "HTTPException", status |-> 500,
                         detail |-> "Server error"]
        /\ raised.type = "Exception" =>
               result = [type |-> "HTTPException", status |-> 500,
                         detail |-> "Server error"]
        /\ raised.type = "HTTPException" => result = raised

\* C14: the active count GET /tokens reports is computed from the sequence and
\* the quarantine set of one instant: when the count is taken, the sequence
\* read before is still the Pool's, and the count is the number of distinct
\* values of the sequence that are not quarantined, whatever upload, clear and
\* quarantine do around it.
C14_ViewIsSnapshot ==
    [][ (view_pc = "read" /\ view_pc' = "idle") =>
            /\ view_toks = Range(token_list)
            /\ view_count' = tokens_count(token_list, error_token_list)
            /\ view_count' = tokens_count(token_list', error_token_list')
      ]_vars

\* a count that left out a quarantined value of a two-token Pool
C14_Witness ==
    /\ view_pc = "idle"
    /\ Len(token_list) = 2
    /\ error_token_list # << >>
    /\ view_count = 1
    /\ view_count = tokens_count(token_list, error_token_list)

\* C15: a catch-all request whose path starts with "c/" is answered with 302
\* to the root path and is not forwarded; the seed parameter of the redirect's
\* query (the characters after "seed=" up to the next "&") is the seed_token
\* cookie when that cookie is present and not empty, and the time of the
\* request otherwise.
C15_RedirectCarriesSeed ==
    (rp_resp # NoResponse /\ startswith_c(rp_path)) =>
        LET url == rp_resp.location
            query == SubSeq(url, Len(base_url) + 2, Len(url))
            value == SubSeq(query, 6, Len(query))
            stops == {i \in 1..Len(value) : value[i] = "&"}
            seed == IF stops = {} THEN value
                    ELSE SubSeq(value, 1, (CHOOSE i \in stops : \A j \in stops : i <= j) - 1)
        IN /\ rp_resp.status = 302
           /\ ~rp_resp.proxied
           /\ SubSeq(url, 1, Len(base_url) + 1) = base_url \o << "?" >>
           /\ SubSeq(query, 1, 5) = << "s", "e", "e", "d", "=" >>
           /\ IF rp_cookie.present /\ rp_cookie.value # << >>
              THEN seed = rp_cookie.value
              ELSE seed = str_int(rp_now)

C18_CloseAfterDelivery ==
    result.type = "response" =>
        /\ pc = "deliver" => sessions[Cur].closes = 0
        /\ sessions[Cur].closes >= 1 => delivery \in {"complete", "disconnect"}

\* a stream the client abandoned, its Session closed afterwards
C18_Witness ==
    /\ pc = "done"
    /\ result.type = "response"
    /\ res_kind = "stream"
    /\ delivery = "disconnect"
    /\ sessions[Cur].closes = 1

\* C19: an upload changes only the tail of the Pool: the sequence and the
\* store keep what they held, in order, in front of what is appended; the
\* quarantine set is unchanged; and a text whose lines are all blank or start
\* with '#' changes none of the three.
C19_UploadChangesOnlyTail ==
    [][ (up_pc = "pending" /\ up_pc' = "done") =>
            /\ Len(token_list') >= Len(token_list)
            /\ SubSeq(token_list', 1, Len(token_list)) = token_list
            /\ error_token_list' = error_token_list
            /\ Len(token_file') >= Len(token_file)
            /\ SubSeq(token_file', 1, Len(token_file)) = token_file
            /\ (\A i \in 1..Len(split(up_text)) :
                    \/ strip(split(up_text)[i]) = << >>
                    \/ startswith_hash(split(up_text)[i]))
               => /\ token_list' = token_list
                  /\ token_file' = token_file
      ]_vars

\* an upload of one token to a Pool whose only token is quarantined
C19_Witness ==
    /\ up_pc = "done"
    /\ Len(token_list) = 2
    /\ Len(token_file) = 2
    /\ token_list[1] = TokA
    /\ error_token_list = << TokA >>

====
